---- MODULE Spec2Model ----
(***************************************************************************)
(* django-crowdsourcing: the survey data model (crowdsourcing/models.py)   *)
(* and the submit/results views (crowdsourcing/views.py).                  *)
(*                                                                         *)
(* The module holds one state machine per part of the program:             *)
(*   SpecAnswer       Answer.value, the typed accessor/mutator             *)
(*   SpecLifecycle    Survey.is_open, Survey.live, public_submissions      *)
(*   SpecAttribution  Survey.submissions_for                               *)
(*   SpecMemo         Submission.get_answer_dict / __getattr__             *)
(*   Spec             the views of views.py as written                     *)
(*   SpecIsOpenProperty  the body of _survey_submit below its first line,  *)
(*                    reached when line 12 reads is_open as the property   *)
(*                    it is (as views.py:50 does)                          *)
(***************************************************************************)
EXTENDS Integers, Sequences, FiniteSets, TLC

VARIABLES
    \* ---- an Answer instance (models.py:161-194)
    answer,        \* its four typed columns
    option_type,   \* answer.question.option_type
    written,       \* the value last assigned through Answer.value
    got,           \* what the last read of Answer.value returned
    exc,           \* the exception the last assignment raised, or "none"
    \* ---- the clock and the tables (models.py:29-44, 130-139)
    now,           \* datetime.datetime.now()
    surveys,       \* slug -> Survey row
    submissions,   \* Submission rows, indexed by primary key
    ret,           \* the last call of a Survey method and what it returned
    \* ---- a Submission instance and its answers (models.py:143-158)
    answer_set,    \* the stored Answers of the submission: fieldname -> value
    answer_dict,   \* __dict__['_answer_dict']: 0 (no such key) or a dict object
    heap,          \* the dict objects created, by identity
    queries,       \* how often the instance has read answer_set from storage
    returned,      \* the objects get_answer_dict has returned, in call order
    attr,          \* the last attribute lookup and its outcome
    \* ---- requests in the views (views.py)
    req,           \* request slot -> the request it holds
    pc,            \* request slot -> where its handler stands
    resp,          \* request slot -> the response returned
    sub,           \* request slot -> primary key of the Submission it saved, or 0
    nsaved,        \* request slot -> how many of its forms are saved
    answers,       \* the Answer table: rows (submission, fieldname)
    thanks         \* session data: (session_key, slug) with survey_thanks_<slug>

answerVars == <<answer, option_type, written, got, exc>>
tableVars == <<now, surveys, submissions>>
memoVars == <<answer_set, answer_dict, heap, queries, returned, attr>>
viewVars == <<req, pc, resp, sub, nsaved, answers, thanks>>
\* What the actions of one machine leave alone.
notAnswer == <<now, surveys, submissions, ret, answer_set, answer_dict, heap,
               queries, returned, attr, req, pc, resp, sub, nsaved, answers, thanks>>
notMemo == <<answer, option_type, written, got, exc, now, surveys, submissions,
             ret, req, pc, resp, sub, nsaved, answers, thanks>>
notTables == <<answer, option_type, written, got, exc, answer_set, answer_dict,
               heap, queries, returned, attr, req, pc, resp, sub, nsaved, answers,
               thanks>>
notViews == <<answer, option_type, written, got, exc, answer_set, answer_dict,
              heap, queries, returned, attr, ret>>
vars == <<answer, option_type, written, got, exc, now, surveys, submissions, ret,
          answer_set, answer_dict, heap, queries, returned, attr,
          req, pc, resp, sub, nsaved, answers, thanks>>

(***************************************************************************)
(* Python values. A value is a record of one shape; k is its type.  A str  *)
(* is the sequence of its characters, a float is held in tenths.           *)
(***************************************************************************)
PyNone == [k |-> "NoneType", n |-> 0, s |-> <<>>, b |-> FALSE]
PyStr(chars) == [k |-> "str", n |-> 0, s |-> chars, b |-> FALSE]
PyIntV(i) == [k |-> "int", n |-> i, s |-> <<>>, b |-> FALSE]
PyFloatV(tenths) == [k |-> "float", n |-> tenths, s |-> <<>>, b |-> FALSE]
PyBoolV(t) == [k |-> "bool", n |-> 0, s |-> <<>>, b |-> t]

\* Marks "no value yet" in written / got; not a Python value.
Nothing == [k |-> "nothing", n |-> 0, s |-> <<>>, b |-> FALSE]

Digits == {"0", "1", "2", "3", "4", "5", "6", "7", "8", "9"}

DigVal(c) ==
    CASE c = "0" -> 0 [] c = "1" -> 1 [] c = "2" -> 2 [] c = "3" -> 3
      [] c = "4" -> 4 [] c = "5" -> 5 [] c = "6" -> 6 [] c = "7" -> 7
      [] c = "8" -> 8 [] c = "9" -> 9

RECURSIVE LStrip(_)
LStrip(s) == IF s # <<>> /\ Head(s) = " " THEN LStrip(Tail(s)) ELSE s

RECURSIVE RStrip(_)
RStrip(s) ==
    IF s # <<>> /\ s[Len(s)] = " " THEN RStrip(SubSeq(s, 1, Len(s) - 1)) ELSE s

Strip(s) == RStrip(LStrip(s))

IsDigits(s) == s # <<>> /\ \A i \in 1..Len(s) : s[i] \in Digits

RECURSIVE Unsigned(_)
Unsigned(s) ==
    IF s = <<>> THEN 0
    ELSE 10 * Unsigned(SubSeq(s, 1, Len(s) - 1)) + DigVal(s[Len(s)])

HasSign(s) == s # <<>> /\ Head(s) \in {"+", "-"}
Unsign(s) == IF HasSign(s) THEN Tail(s) ELSE s
Sign(s) == IF s # <<>> /\ Head(s) = "-" THEN -1 ELSE 1

\* The position of the first "." of s, or 0.
DotAt(s) ==
    IF \E i \in 1..Len(s) : s[i] = "."
    THEN CHOOSE i \in 1..Len(s) : s[i] = "." /\ \A j \in 1..(i - 1) : s[j] # "."
    ELSE 0

\* int(str): optional blanks, optional sign, digits.
IntLiteral(s) == IsDigits(Unsign(Strip(s)))
ParseInt(s) == Sign(Strip(s)) * Unsigned(Unsign(Strip(s)))

\* float(str), for the literals with at most one fractional digit:
\* digits, digits ".", digits "." digit, "." digit.
FloatLiteral(s) ==
    LET t == Unsign(Strip(s))
        d == DotAt(t)
        whole == IF d = 0 THEN t ELSE SubSeq(t, 1, d - 1)
        frac == IF d = 0 THEN <<>> ELSE SubSeq(t, d + 1, Len(t))
    IN  /\ whole = <<>> \/ IsDigits(whole)
        /\ frac = <<>> \/ (IsDigits(frac) /\ Len(frac) = 1)
        /\ whole # <<>> \/ frac # <<>>

ParseFloatTenths(s) ==
    LET t == Unsign(Strip(s))
        d == DotAt(t)
        whole == IF d = 0 THEN t ELSE SubSeq(t, 1, d - 1)
        frac == IF d = 0 THEN <<>> ELSE SubSeq(t, d + 1, Len(t))
    IN  Sign(Strip(s)) * (10 * Unsigned(whole) + Unsigned(frac))

\* Truncation toward zero, as int(float) does.
TruncTenths(t) == IF t >= 0 THEN t \div 10 ELSE -((-t) \div 10)

\* bool(v): never raises.
PyBool(v) ==
    PyBoolV(CASE v.k = "str" -> v.s # <<>>
              [] v.k = "int" -> v.n # 0
              [] v.k = "float" -> v.n # 0
              [] v.k = "bool" -> v.b
              [] OTHER -> FALSE)

\* The exception int(v) raises, or "none".
IntRaises(v) ==
    CASE v.k = "str" -> IF IntLiteral(v.s) THEN "none" ELSE "ValueError"
      [] v.k = "NoneType" -> "TypeError"
      [] OTHER -> "none"

PyInt(v) ==
    PyIntV(CASE v.k = "str" -> ParseInt(v.s)
             [] v.k = "int" -> v.n
             [] v.k = "float" -> TruncTenths(v.n)
             [] v.k = "bool" -> IF v.b THEN 1 ELSE 0)

\* The exception float(v) raises, or "none".
FloatRaises(v) ==
    CASE v.k = "str" -> IF FloatLiteral(v.s) THEN "none" ELSE "ValueError"
      [] v.k = "NoneType" -> "TypeError"
      [] OTHER -> "none"

PyFloat(v) ==
    PyFloatV(CASE v.k = "str" -> ParseFloatTenths(v.s)
               [] v.k = "int" -> 10 * v.n
               [] v.k = "float" -> v.n
               [] v.k = "bool" -> IF v.b THEN 10 ELSE 0)

(***************************************************************************)
(* Bounds of the Answer machine.                                           *)
(***************************************************************************)
MaxNum == 2

StrValues ==
    { <<>>, <<"4", "2">>, <<"a", "b">>, <<"3", ".", "5">>, <<" ", "7", " ">>,
      <<"-", "4">>, <<"0">>, <<".", "5">>, <<"1", ".">>, <<"-">>, <<".">> }

Values ==
    {PyNone} \cup {PyStr(s) : s \in StrValues}
             \cup {PyIntV(i) : i \in -MaxNum..MaxNum}
             \cup {PyFloatV(t) : t \in {x \in (-10 * MaxNum)..(10 * MaxNum) : x % 5 = 0}}
             \cup {PyBoolV(t) : t \in BOOLEAN}

(***************************************************************************)
(* OPTION_TYPE_CHOICES (models.py:93-105): the stored codes.  BOOLEAN,     *)
(* FLOAT and INTEGER are the names ChoiceEnum derives from the labels      *)
(* 'Boolean', 'Float' and 'Integer'.                                       *)
(***************************************************************************)
OPTION_TYPE_CHOICES ==
    {"char", "email", "photo", "video", "location", "integer", "float",
     "bool", "text", "select", "radio", "checkbox"}
BOOLEAN_TYPE == "bool"
FLOAT_TYPE == "float"
INTEGER_TYPE == "integer"

\* Answer.value, the getter (models.py:172-180).
get_swapped(a, ot) ==
    IF ot = BOOLEAN_TYPE THEN a.boolean_answer
    ELSE IF ot = FLOAT_TYPE THEN a.integer_answer
    ELSE IF ot = INTEGER_TYPE THEN a.float_answer
    ELSE a.text_answer

get(a, ot) ==
    IF ot = BOOLEAN_TYPE THEN a.boolean_answer
    ELSE IF ot = FLOAT_TYPE THEN a.float_answer
    ELSE IF ot = INTEGER_TYPE THEN a.integer_answer
    ELSE a.text_answer

\* The exception the setter raises on v (from its coercion), or "none".
set_raises(ot, v) ==
    IF ot = BOOLEAN_TYPE THEN "none"
    ELSE IF ot = FLOAT_TYPE THEN FloatRaises(v)
    ELSE IF ot = INTEGER_TYPE THEN IntRaises(v)
    ELSE "none"

\* Answer.value, the setter (models.py:182-191): the instance after it.
set(a, ot, v) ==
    IF ot = BOOLEAN_TYPE THEN [a EXCEPT !.boolean_answer = PyBool(v)]
    ELSE IF ot = FLOAT_TYPE THEN [a EXCEPT !.float_answer = PyFloat(v)]
    ELSE IF ot = INTEGER_TYPE THEN [a EXCEPT !.integer_answer = PyInt(v)]
    ELSE [a EXCEPT !.text_answer = v]

\* An Answer as loaded: the columns hold whatever earlier writes left there.
AnswerLoaded ==
    /\ option_type \in OPTION_TYPE_CHOICES
    /\ answer \in [text_answer : {PyStr(<<>>), PyStr(<<"o", "l", "d">>)},
                   integer_answer : {PyNone, PyIntV(9)},
                   float_answer : {PyNone, PyFloatV(95)},
                   boolean_answer : {PyNone, PyBoolV(TRUE)}]
    /\ written = Nothing
    /\ got = Nothing
    /\ exc = "none"

\* No Answer instance in play.
AnswerIdle ==
    /\ option_type = "char"
    /\ answer = [text_answer |-> PyStr(<<>>), integer_answer |-> PyNone,
                 float_answer |-> PyNone, boolean_answer |-> PyNone]
    /\ written = Nothing
    /\ got = Nothing
    /\ exc = "none"

\* answer.value = v
AnswerSetValue(v) ==
    /\ exc' = set_raises(option_type, v)
    /\ IF set_raises(option_type, v) = "none"
       THEN /\ answer' = set(answer, option_type, v)
            /\ written' = v
            /\ got' = Nothing
       ELSE UNCHANGED <<answer, written, got>>
    /\ UNCHANGED option_type
    /\ UNCHANGED notAnswer

\* x = answer.value
AnswerGetValue ==
    /\ got' = get(answer, option_type)
    /\ UNCHANGED <<answer, option_type, written, exc>>
    /\ UNCHANGED notAnswer

(***************************************************************************)
(* The tables.                                                             *)
(***************************************************************************)
MaxTime == 2
MaxSubs == 2

Times == 0..MaxTime
Slugs == {"poll", "quiz"}
Users == {"alice", "bob"}
AnonymousUser == "AnonymousUser"
NullUser == "NULL"
\* request.session.session_key: None, or a str.
NoneKey == "<None>"
SessionKeys == {"k1", "k2"}

\* ARCHIVE_POLICY_CHOICES (models.py:14-16): ChoiceEnum numbers the names from 1.
IMMEDIATE == 1
POST_CLOSE == 2
NEVER == 3
ARCHIVE_POLICY_CHOICES == {IMMEDIATE, POST_CLOSE, NEVER}

\* Survey rows (models.py:29-44). ends_at is nullable: {} is NULL, {t} is t.
SurveyRows ==
    [is_published : BOOLEAN,
     starts_at : Times,
     ends_at : {{}} \cup {{t} : t \in Times},
     archive_policy : ARCHIVE_POLICY_CHOICES,
     require_login : BOOLEAN,
     allow_multiple_submissions : BOOLEAN]

\* Submission rows (models.py:130-139).
SubmissionRows ==
    [survey : Slugs,
     user : Users \cup {NullUser},
     session_key : SessionKeys \cup {""},
     is_public : BOOLEAN]

SeqsUpTo(S, n) == UNION {[1..m -> S] : m \in 0..n}

\* is_authenticated() of a request's user (User: True, AnonymousUser: False).
is_authenticated(user) == user \in Users

\* Survey.is_open at clock reading t (models.py:57-63).  A datetime is always
\* truthy, so "if self.ends_at" tests for NULL.
is_open_inclusive(s, t) ==
    IF s.ends_at # {}
    THEN s.starts_at <= t /\ \A e \in s.ends_at : t <= e
    ELSE s.starts_at <= t

is_open(s, t) ==
    IF s.ends_at # {}
    THEN s.starts_at <= t /\ \A e \in s.ends_at : t < e
    ELSE s.starts_at <= t

\* LiveSurveyManager.get_query_set at clock reading t (models.py:18-26):
\* the slugs of the rows the filter keeps.
get_query_set_ended(tbl, t) ==
    {slug \in DOMAIN tbl :
        /\ tbl[slug].is_published
        /\ tbl[slug].starts_at <= t
        /\ \/ tbl[slug].archive_policy # NEVER
           \/ \E e \in tbl[slug].ends_at : e > t}

get_query_set(tbl, t) ==
    {slug \in DOMAIN tbl :
        /\ tbl[slug].is_published = TRUE
        /\ tbl[slug].starts_at <= t
        /\ \/ ~(tbl[slug].archive_policy = NEVER)
           \/ tbl[slug].ends_at = {}
           \/ \E e \in tbl[slug].ends_at : e > t}

\* survey.submission_set: the primary keys of the survey's Submissions.
submission_set(slug, subs) == {i \in DOMAIN subs : subs[i].survey = slug}

\* Survey.submissions_for (models.py:65-74).
submissions_for_any_survey(slug, subs, user, session_key) ==
    IF is_authenticated(user)
    THEN {i \in DOMAIN subs : subs[i].user = user}
    ELSE IF session_key \notin {NoneKey, ""}
    THEN {i \in DOMAIN subs : subs[i].session_key = session_key}
    ELSE {}

submissions_for(slug, subs, user, session_key) ==
    IF is_authenticated(user)
    THEN {i \in DOMAIN subs : subs[i].survey = slug /\ subs[i].user = user}
    ELSE IF session_key \notin {NoneKey, ""}
    THEN {i \in DOMAIN subs :
             subs[i].survey = slug /\ subs[i].session_key = session_key}
    ELSE {}

\* Survey.public_submissions at clock reading t (models.py:76-81).
public_submissions_while_open(slug, tbl, subs, t) ==
    IF tbl[slug].archive_policy = NEVER
    THEN {}
    ELSE {i \in submission_set(slug, subs) : subs[i].is_public = TRUE}

public_submissions(slug, tbl, subs, t) ==
    IF \/ tbl[slug].archive_policy = NEVER
       \/ (tbl[slug].archive_policy = POST_CLOSE /\ is_open(tbl[slug], t))
    THEN {}
    ELSE {i \in submission_set(slug, subs) : subs[i].is_public = TRUE}

NoCall == [op |-> "none", survey |-> "", at |-> 0, user |-> "", key |-> "",
           val |-> {}]

\* The second survey's row where only the first one's is varied.
QuizRow ==
    [is_published |-> TRUE, starts_at |-> 0, ends_at |-> {1},
     archive_policy |-> IMMEDIATE, require_login |-> FALSE,
     allow_multiple_submissions |-> FALSE]

\* Any row for "poll"; any Submissions of anonymous requesters without a key.
LifecycleTables ==
    /\ now \in Times
    /\ \E row \in SurveyRows :
          /\ row.require_login = FALSE
          /\ row.allow_multiple_submissions = FALSE
          /\ surveys = [slug \in Slugs |-> IF slug = "poll" THEN row ELSE QuizRow]
    /\ submissions \in SeqsUpTo({r \in SubmissionRows :
                                    r.user = NullUser /\ r.session_key = ""},
                                MaxSubs)
    /\ ret = NoCall

\* Fixed Survey rows; any public Submissions.
AttributionTables ==
    /\ now = 0
    /\ surveys = [slug \in Slugs |-> QuizRow]
    /\ submissions \in SeqsUpTo({r \in SubmissionRows : r.is_public}, MaxSubs)
    /\ ret = NoCall

\* The clock advances.
Tick ==
    /\ now < MaxTime
    /\ now' = now + 1
    /\ UNCHANGED <<surveys, submissions, ret>>
    /\ UNCHANGED notTables

\* survey.is_open
CallIsOpen(slug) ==
    /\ ret' = [NoCall EXCEPT !.op = "is_open", !.survey = slug, !.at = now,
                             !.val = is_open(surveys[slug], now)]
    /\ UNCHANGED tableVars
    /\ UNCHANGED notTables

\* Survey.live.all()
CallLive ==
    /\ ret' = [NoCall EXCEPT !.op = "live", !.at = now,
                             !.val = get_query_set(surveys, now)]
    /\ UNCHANGED tableVars
    /\ UNCHANGED notTables

\* survey.public_submissions()
CallPublicSubmissions(slug) ==
    /\ ret' = [NoCall EXCEPT !.op = "public_submissions", !.survey = slug,
                             !.at = now,
                             !.val = public_submissions(slug, surveys, submissions, now)]
    /\ UNCHANGED tableVars
    /\ UNCHANGED notTables

\* survey.submissions_for(user, session_key)
CallSubmissionsFor(slug, user, key) ==
    /\ ret' = [NoCall EXCEPT !.op = "submissions_for", !.survey = slug,
                             !.at = now, !.user = user, !.key = key,
                             !.val = submissions_for(slug, submissions, user, key)]
    /\ UNCHANGED tableVars
    /\ UNCHANGED notTables

(***************************************************************************)
(* Submission.get_answer_dict and __getattr__.                             *)
(***************************************************************************)
MaxCalls == 3

Fieldnames == {"age", "name"}
AnswerValues == {"a", "b"}
Absent == "<no answer>"

\* dict((a.question.fieldname, a.value) for a in answers)
DictOf(rows) == [f \in {g \in Fieldnames : rows[g] # Absent} |-> rows[f]]

\* get_answer_dict (models.py:143-151) on an instance whose __dict__ holds
\* cache, with objects h allocated and q reads done so far: the instance
\* after the call and the object d it returns.
get_answer_dict_unstored(cache, h, q, rows) ==
    [cache |-> cache, heap |-> Append(h, DictOf(rows)), queries |-> q + 1,
     d |-> Len(h) + 1]

get_answer_dict(cache, h, q, rows) ==
    IF cache # 0
    THEN [cache |-> cache, heap |-> h, queries |-> q, d |-> cache]
    ELSE [cache |-> Len(h) + 1, heap |-> Append(h, DictOf(rows)),
          queries |-> q + 1, d |-> Len(h) + 1]

NoLookup == [k |-> "", outcome |-> "none", val |-> ""]

\* A Submission instance just loaded; its answers as stored.
MemoLoaded ==
    /\ answer_set \in [Fieldnames -> AnswerValues \cup {Absent}]
    /\ answer_dict = 0
    /\ heap = <<>>
    /\ queries = 0
    /\ returned = <<>>
    /\ attr = NoLookup

MemoIdle ==
    /\ answer_set = [f \in Fieldnames |-> Absent]
    /\ answer_dict = 0
    /\ heap = <<>>
    /\ queries = 0
    /\ returned = <<>>
    /\ attr = NoLookup

\* d = submission.get_answer_dict()
CallGetAnswerDict ==
    /\ Len(returned) < MaxCalls
    /\ LET r == get_answer_dict(answer_dict, heap, queries, answer_set)
       IN  /\ answer_dict' = r.cache
           /\ heap' = r.heap
           /\ queries' = r.queries
           /\ returned' = Append(returned, r.d)
    /\ UNCHANGED <<answer_set, attr>>
    /\ UNCHANGED notMemo

\* submission.<k> (models.py:153-158)
CallGetAttr(k) ==
    /\ Len(returned) < MaxCalls
    /\ LET r == get_answer_dict(answer_dict, heap, queries, answer_set)
           d == r.heap[r.d]
       IN  /\ answer_dict' = r.cache
           /\ heap' = r.heap
           /\ queries' = r.queries
           /\ returned' = Append(returned, r.d)
           /\ attr' = IF k \in DOMAIN d
                      THEN [k |-> k, outcome |-> "value", val |-> d[k]]
                      ELSE [k |-> k, outcome |-> "AttributeError", val |-> ""]
    /\ UNCHANGED answer_set
    /\ UNCHANGED notMemo

\* An Answer of the submission is saved: a new one, or a new value of one.
AnswerSaved(f, v) ==
    /\ answer_set[f] # v
    /\ answer_set' = [answer_set EXCEPT ![f] = v]
    /\ UNCHANGED <<answer_dict, heap, queries, returned, attr>>
    /\ UNCHANGED notMemo

(***************************************************************************)
(* The views.                                                              *)
(***************************************************************************)
Reqs == {"r1", "r2"}
\* A request without the session attribute (no session middleware).
NoSession == "<no session>"

NoReq == [method |-> "", view |-> "", slug |-> "", user |-> "", session |-> "",
          at |-> 0]
NoResp == [body |-> "", page |-> {}, thanks |-> FALSE]
Body(b) == [NoResp EXCEPT !.body = b]

is_anonymous(user) == ~is_authenticated(user)

\* survey.is_open() (views.py:12).  is_open is a property (models.py:57-58):
\* survey.is_open is already the bool, and calling a bool raises TypeError,
\* whatever the window and the clock say.
is_open_call(s, t) == "TypeError"

\* _survey_submit (views.py:11-35) as written: line 12 raises before any
\* other line runs, and Django answers the uncaught exception with a 500.
_survey_submit(s, t, user, session, subs) ==
    CASE is_open_call(s, t) = "TypeError" -> Body("500 TypeError")

\* _survey_show_form (views.py:37-41) with the forms of views.py:50-54.
_survey_show_form(s, t, user) ==
    IF is_open(s, t) /\ (is_authenticated(user) \/ ~s.require_login)
    THEN Body("survey_detail with forms")
    ELSE Body("survey_detail without forms")

\* survey_detail (views.py:44-55).
survey_detail(method, slug, user, session, tbl, subs, t) ==
    IF slug \notin get_query_set(tbl, t)
    THEN Body("404")
    ELSE IF method = "POST"
    THEN _survey_submit(tbl[slug], t, user, session, subs)
    ELSE _survey_show_form(tbl[slug], t, user)

\* survey_results (views.py:58-74), first page.
survey_results(slug, session, tbl, subs, t, th) ==
    IF slug \notin get_query_set(tbl, t)
    THEN Body("404")
    ELSE IF session = NoSession
    THEN Body("500 AttributeError")
    ELSE [body |-> "survey_results",
          page |-> public_submissions(slug, tbl, subs, t),
          thanks |-> <<session, slug>> \in th]

ViewsIdle ==
    /\ req = [r \in Reqs |-> NoReq]
    /\ pc = [r \in Reqs |-> "idle"]
    /\ resp = [r \in Reqs |-> NoResp]
    /\ sub = [r \in Reqs |-> 0]
    /\ nsaved = [r \in Reqs |-> 0]
    /\ answers = {}
    /\ thanks = {}

RequestUsers == {AnonymousUser, "alice"}
RequestSessions == {NoSession, "k1"}

\* The Submissions of slug a requester accounts for: by user if logged in,
\* else by session key.
AttributedTo(slug, subs, user, session) ==
    {i \in DOMAIN subs :
        /\ subs[i].survey = slug
        /\ IF is_authenticated(user) THEN subs[i].user = user
           ELSE subs[i].session_key = session}

\* No two Submissions of one survey share a user or a session key.
OnePerRequester(subs) ==
    \A i, j \in DOMAIN subs :
        (i # j /\ subs[i].survey = subs[j].survey) =>
            /\ subs[i].user = NullUser \/ subs[i].user # subs[j].user
            /\ subs[i].session_key = "" \/ subs[i].session_key # subs[j].session_key

\* The tables the views run on: any row for "poll" that forbids multiple
\* submissions, and earlier Submissions of "poll", at most one per requester.
ViewTables ==
    /\ now \in Times
    /\ \E row \in SurveyRows :
          /\ row.allow_multiple_submissions = FALSE
          /\ surveys = [slug \in Slugs |-> IF slug = "poll" THEN row ELSE QuizRow]
    /\ submissions \in SeqsUpTo({r \in SubmissionRows :
                                    /\ r.survey = "poll"
                                    /\ r.user \in {NullUser, "alice"}
                                    /\ r.session_key \in SessionKeys
                                    /\ r.is_public},
                                MaxSubs)
    /\ OnePerRequester(submissions)
    /\ ret = NoCall

\* A request to survey_detail is served.
ServeSurveyDetail(r, method, slug, user, session) ==
    /\ req' = [req EXCEPT ![r] = [method |-> method, view |-> "survey_detail",
                                  slug |-> slug, user |-> user,
                                  session |-> session, at |-> now]]
    /\ resp' = [resp EXCEPT ![r] = survey_detail(method, slug, user, session,
                                                 surveys, submissions, now)]
    /\ pc' = [pc EXCEPT ![r] = "done"]
    /\ UNCHANGED <<sub, nsaved, answers, thanks>>
    /\ UNCHANGED tableVars
    /\ UNCHANGED notViews

\* A request to survey_results is served.
ServeSurveyResults(r, slug, session) ==
    /\ req' = [req EXCEPT ![r] = [method |-> "GET", view |-> "survey_results",
                                  slug |-> slug, user |-> AnonymousUser,
                                  session |-> session, at |-> now]]
    /\ resp' = [resp EXCEPT ![r] = survey_results(slug, session, surveys,
                                                  submissions, now, thanks)]
    /\ pc' = [pc EXCEPT ![r] = "done"]
    /\ UNCHANGED <<sub, nsaved, answers, thanks>>
    /\ UNCHANGED tableVars
    /\ UNCHANGED notViews

(***************************************************************************)
(* _survey_submit below line 12, one action per storage access.  These     *)
(* lines run only if line 12 reads survey.is_open as the property, the way  *)
(* views.py:50 does; each request keeps its own position, so two requests  *)
(* interleave between the count() of line 22 and the save() of line 31.    *)
(***************************************************************************)
\* The forms of forms_for_survey: the Submission's form, then one form per
\* Question of the survey, in order.
QuestionOrder == <<"age", "name">>
NForms == 1 + Len(QuestionOrder)

\* Lines 12-20, with line 12 as "if not survey.is_open": the response, or
\* "pass" to go on to line 21.
submit_gate(s, t, user, session) ==
    IF ~is_open(s, t) THEN "redirect survey_results"
    ELSE IF s.require_login /\ is_anonymous(user) THEN "redirect auth_login"
    ELSE IF session = NoSession THEN "403 Cookies must be enabled"
    ELSE "pass"

\* Lines 21-22: whether the request is answered "already submitted".
already_submitted(slug, s, subs, user, session) ==
    /\ ~s.allow_multiple_submissions
    /\ Cardinality(submissions_for(slug, subs, user, session)) # 0

\* The row the Submission's form saves for a request.
submission_row(slug, user, session) ==
    [survey |-> slug,
     user |-> IF is_authenticated(user) THEN user ELSE NullUser,
     session_key |-> session,
     is_public |-> TRUE]

\* Any row for "poll" that is published, started and not hidden; no
\* Submissions yet.
SubmitTables ==
    /\ now \in Times
    /\ \E row \in SurveyRows :
          /\ row.is_published
          /\ row.starts_at = 0
          /\ row.ends_at \in {{}, {MaxTime}}
          /\ row.archive_policy = IMMEDIATE
          /\ surveys = [slug \in Slugs |-> IF slug = "poll" THEN row ELSE QuizRow]
    /\ submissions = <<>>
    /\ ret = NoCall

\* survey_detail on a POST (views.py:44-48): the lookup in Survey.live.
PostSurveyDetail(r, user, session) ==
    /\ pc[r] = "idle"
    /\ req' = [req EXCEPT ![r] = [method |-> "POST", view |-> "survey_detail",
                                  slug |-> "poll", user |-> user,
                                  session |-> session, at |-> now]]
    /\ IF "poll" \in get_query_set(surveys, now)
       THEN /\ pc' = [pc EXCEPT ![r] = "submit"]
            /\ UNCHANGED resp
       ELSE /\ pc' = [pc EXCEPT ![r] = "done"]
            /\ resp' = [resp EXCEPT ![r] = Body("404")]
    /\ UNCHANGED <<sub, nsaved, answers, thanks>>
    /\ UNCHANGED tableVars
    /\ UNCHANGED notViews

\* Lines 12-20.
SubmitGate(r) ==
    /\ pc[r] = "submit"
    /\ LET g == submit_gate(surveys[req[r].slug], now, req[r].user, req[r].session)
       IN  IF g = "pass"
           THEN /\ pc' = [pc EXCEPT ![r] = "dupcheck"]
                /\ UNCHANGED resp
           ELSE /\ pc' = [pc EXCEPT ![r] = "done"]
                /\ resp' = [resp EXCEPT ![r] = Body(g)]
    /\ UNCHANGED <<req, sub, nsaved, answers, thanks>>
    /\ UNCHANGED tableVars
    /\ UNCHANGED notViews

\* Lines 21-26: the count() query and the "already submitted" page.
SubmitDupCheck(r) ==
    /\ pc[r] = "dupcheck"
    /\ IF already_submitted(req[r].slug, surveys[req[r].slug], submissions,
                            req[r].user, req[r].session)
       THEN /\ pc' = [pc EXCEPT ![r] = "done"]
            /\ resp' = [resp EXCEPT ![r] = Body("already_submitted")]
       ELSE /\ pc' = [pc EXCEPT ![r] = "forms"]
            /\ UNCHANGED resp
    /\ UNCHANGED <<req, sub, nsaved, answers, thanks>>
    /\ UNCHANGED tableVars
    /\ UNCHANGED notViews

\* Lines 28-29 and 34-35: the forms are built and validated; valid is what
\* the posted data make of all(form.is_valid() for form in forms).
SubmitForms(r, valid) ==
    /\ pc[r] = "forms"
    /\ IF valid
       THEN /\ pc' = [pc EXCEPT ![r] = "save"]
            /\ UNCHANGED resp
       ELSE /\ pc' = [pc EXCEPT ![r] = "done"]
            /\ resp' = [resp EXCEPT ![r] = Body("survey_detail with form errors")]
    /\ UNCHANGED <<req, sub, nsaved, answers, thanks>>
    /\ UNCHANGED tableVars
    /\ UNCHANGED notViews

\* Lines 30-31: the next form's save() stores its row.
SubmitSaveForm(r) ==
    /\ pc[r] = "save"
    /\ nsaved[r] < NForms
    /\ IF nsaved[r] = 0
       THEN /\ submissions' = Append(submissions,
                                     submission_row(req[r].slug, req[r].user,
                                                    req[r].session))
            /\ sub' = [sub EXCEPT ![r] = Len(submissions) + 1]
            /\ UNCHANGED answers
       ELSE /\ answers' = answers \cup
                            {[submission |-> sub[r],
                              fieldname |-> QuestionOrder[nsaved[r]]]}
            /\ UNCHANGED <<submissions, sub>>
    /\ nsaved' = [nsaved EXCEPT ![r] = nsaved[r] + 1]
    /\ UNCHANGED <<req, pc, resp, thanks>>
    /\ UNCHANGED <<now, surveys>>
    /\ UNCHANGED notViews

\* Lines 30-31: the next form's save() raises (storage, upload or geocoding
\* error); the exception leaves the view, and nothing undoes earlier saves.
SubmitSaveFails(r) ==
    /\ pc[r] = "save"
    /\ nsaved[r] < NForms
    /\ pc' = [pc EXCEPT ![r] = "done"]
    /\ resp' = [resp EXCEPT ![r] = Body("500 save failed")]
    /\ UNCHANGED <<req, sub, nsaved, answers, thanks>>
    /\ UNCHANGED tableVars
    /\ UNCHANGED notViews

\* Line 33 and _survey_results_redirect (views.py:77-82).
SubmitThanks(r) ==
    /\ pc[r] = "save"
    /\ nsaved[r] = NForms
    /\ thanks' = thanks \cup {<<req[r].session, req[r].slug>>}
    /\ pc' = [pc EXCEPT ![r] = "done"]
    /\ resp' = [resp EXCEPT ![r] = Body("redirect survey_results thanks")]
    /\ UNCHANGED <<req, sub, nsaved, answers>>
    /\ UNCHANGED tableVars
    /\ UNCHANGED notViews

(***************************************************************************)
(* The specifications.                                                     *)
(***************************************************************************)
InitAnswer == AnswerLoaded /\ now = 0 /\ surveys = [slug \in Slugs |-> QuizRow]
              /\ submissions = <<>> /\ ret = NoCall /\ MemoIdle /\ ViewsIdle

NextAnswer ==
    \/ \E v \in Values : AnswerSetValue(v)
    \/ AnswerGetValue

SpecAnswer == InitAnswer /\ [][NextAnswer]_vars

InitLifecycle == LifecycleTables /\ AnswerIdle /\ MemoIdle /\ ViewsIdle

NextLifecycle ==
    \/ Tick
    \/ \E slug \in Slugs : CallIsOpen(slug)
    \/ CallLive
    \/ \E slug \in Slugs : CallPublicSubmissions(slug)

SpecLifecycle == InitLifecycle /\ [][NextLifecycle]_vars

InitAttribution == AttributionTables /\ AnswerIdle /\ MemoIdle /\ ViewsIdle

NextAttribution ==
    \E slug \in Slugs, user \in Users \cup {AnonymousUser},
       key \in SessionKeys \cup {NoneKey, ""} :
       CallSubmissionsFor(slug, user, key)

SpecAttribution == InitAttribution /\ [][NextAttribution]_vars

InitMemo == MemoLoaded /\ AnswerIdle /\ now = 0
            /\ surveys = [slug \in Slugs |-> QuizRow]
            /\ submissions = <<>> /\ ret = NoCall /\ ViewsIdle

NextMemo ==
    \/ CallGetAnswerDict
    \/ \E k \in Fieldnames : CallGetAttr(k)
    \/ \E f \in Fieldnames, v \in AnswerValues : AnswerSaved(f, v)

SpecMemo == InitMemo /\ [][NextMemo]_vars

\* The views as written.  Every request is served in one step, so requests
\* do not overlap and one slot shows them all.
Init == ViewTables /\ AnswerIdle /\ MemoIdle /\ ViewsIdle

Next ==
    \/ Tick
    \/ \E method \in {"GET", "POST"}, slug \in Slugs, user \in RequestUsers,
          session \in RequestSessions :
          ServeSurveyDetail("r1", method, slug, user, session)
    \/ \E slug \in Slugs, session \in RequestSessions :
          ServeSurveyResults("r1", slug, session)

Spec == Init /\ [][Next]_vars

\* _survey_submit with line 12 as the property read, two requests in flight.
InitIsOpenProperty == SubmitTables /\ AnswerIdle /\ MemoIdle /\ ViewsIdle

NextIsOpenProperty ==
    \/ Tick
    \/ \E r \in Reqs, user \in RequestUsers, session \in RequestSessions :
          PostSurveyDetail(r, user, session)
    \/ \E r \in Reqs : SubmitGate(r)
    \/ \E r \in Reqs : SubmitDupCheck(r)
    \/ \E r \in Reqs, valid \in BOOLEAN : SubmitForms(r, valid)
    \/ \E r \in Reqs : SubmitSaveForm(r)
    \/ \E r \in Reqs : SubmitSaveFails(r)
    \/ \E r \in Reqs : SubmitThanks(r)

SpecIsOpenProperty == InitIsOpenProperty /\ [][NextIsOpenProperty]_vars

(***************************************************************************)
(* C9: a value the coercion accepts, written through Answer.value and read *)
(* back, is bool(v) for a bool question, float(v) for a float question,    *)
(* int(v) for an integer question and v itself for every other type,       *)
(* whatever the other three columns hold; "42" on an integer question      *)
(* reads back as the int 42.                                               *)
(***************************************************************************)
C9_RoundTrip ==
    (written # Nothing /\ got # Nothing) =>
        /\ option_type = "bool" => got = PyBool(written) /\ got.k = "bool"
        /\ option_type = "float" => got = PyFloat(written) /\ got.k = "float"
        /\ option_type = "integer" => got = PyInt(written) /\ got.k = "int"
        /\ option_type \notin {"bool", "float", "integer"} => got = written
        /\ (option_type = "integer" /\ written = PyStr(<<"4", "2">>)) =>
               got = [k |-> "int", n |-> 42, s |-> <<>>, b |-> FALSE]
        /\ (option_type = "float" /\ written = PyStr(<<"3", ".", "5">>)) =>
               got = [k |-> "float", n |-> 35, s |-> <<>>, b |-> FALSE]

\* "42" was written to an integer question over a stale text column and read.
C9_Witness ==
    /\ option_type = "integer"
    /\ written = PyStr(<<"4", "2">>)
    /\ got = PyIntV(42)
    /\ answer.text_answer = PyStr(<<"o", "l", "d">>)
    /\ answer.boolean_answer = PyBoolV(TRUE)


(***************************************************************************)
(* C5: is_open is true exactly when starts_at <= T and (ends_at is null or *)
(* T < ends_at); a non-empty window is closed at T = ends_at and open at   *)
(* T = starts_at.                                                          *)
(***************************************************************************)
C5_IsOpen ==
    /\ \A slug \in Slugs :
          is_open(surveys[slug], now) <=>
              /\ surveys[slug].starts_at <= now
              /\ surveys[slug].ends_at = {} \/ \E e \in surveys[slug].ends_at : now < e
    /\ ret.op = "is_open" =>
          LET s == surveys[ret.survey]
          IN  /\ ret.val <=> /\ s.starts_at <= ret.at
                             /\ s.ends_at = {} \/ \E e \in s.ends_at : ret.at < e
              /\ ret.at \in s.ends_at => ret.val = FALSE
              /\ (ret.at = s.starts_at /\ \A e \in s.ends_at : s.starts_at < e) =>
                     ret.val = TRUE

\* is_open was read at T = ends_at of a started survey, and was false.
C5_Witness ==
    /\ ret.op = "is_open"
    /\ ret.at \in surveys[ret.survey].ends_at
    /\ surveys[ret.survey].starts_at < ret.at
    /\ ret.val = FALSE

(***************************************************************************)
(* C6: a survey is in Survey.live at T exactly when it is published,        *)
(* starts_at <= T and (archive_policy # NEVER or ends_at is null or         *)
(* ends_at > T); a survey can be live and not open.                         *)
(***************************************************************************)
C6_Live ==
    ret.op = "live" =>
        \A slug \in Slugs :
            slug \in ret.val <=>
                /\ surveys[slug].is_published
                /\ surveys[slug].starts_at <= ret.at
                /\ \/ surveys[slug].archive_policy \in {IMMEDIATE, POST_CLOSE}
                   \/ surveys[slug].ends_at = {}
                   \/ \E e \in surveys[slug].ends_at : e > ret.at

\* The live set was read while "poll", past its ends_at, was in it: live, not
\* open; and with policy NEVER a survey without ends_at is live too.
C6_Witness ==
    /\ ret.op = "live"
    /\ ret.at = now
    /\ "poll" \in ret.val
    /\ \E e \in surveys["poll"].ends_at : e <= now
    /\ ~is_open(surveys["poll"], now)

(***************************************************************************)
(* C4: public_submissions() is empty under archive_policy NEVER, empty      *)
(* under POST_CLOSE while the survey is open, and otherwise exactly the     *)
(* survey's Submissions with is_public; a POST_CLOSE survey shows nothing   *)
(* inside its window and all its public Submissions from ends_at on.        *)
(***************************************************************************)
C4_PublicSubmissions ==
    ret.op = "public_submissions" =>
        LET s == surveys[ret.survey]
            open == /\ s.starts_at <= ret.at
                    /\ s.ends_at = {} \/ \E e \in s.ends_at : ret.at < e
            public == {i \in DOMAIN submissions :
                          submissions[i].survey = ret.survey /\ submissions[i].is_public}
        IN  /\ s.archive_policy = NEVER => ret.val = {}
            /\ (s.archive_policy = POST_CLOSE /\ open) => ret.val = {}
            /\ (s.archive_policy = IMMEDIATE \/ (s.archive_policy = POST_CLOSE /\ ~open))
                   => ret.val = public
            /\ (s.archive_policy = POST_CLOSE /\ \E e \in s.ends_at : ret.at >= e)
                   => ret.val = public

\* A POST_CLOSE survey was asked at T = ends_at and showed a Submission, while
\* another Submission (hidden, or of the other survey) stayed out.
C4_Witness ==
    /\ ret.op = "public_submissions"
    /\ surveys[ret.survey].archive_policy = POST_CLOSE
    /\ ret.at \in surveys[ret.survey].ends_at
    /\ ret.val # {}
    /\ \E j \in DOMAIN submissions : j \notin ret.val

(***************************************************************************)
(* C7: submissions_for(user, session_key) is the survey's Submissions of    *)
(* the user when the user is authenticated (the key is ignored), the        *)
(* survey's Submissions with that session key when the user is not          *)
(* authenticated and the key is non-empty, and empty when the user is not   *)
(* authenticated and the key is empty or None; never another survey's.      *)
(***************************************************************************)
C7_SubmissionsFor ==
    ret.op = "submissions_for" =>
        LET mine == {i \in DOMAIN submissions : submissions[i].survey = ret.survey}
        IN  /\ ret.user \in Users =>
                   ret.val = {i \in mine : submissions[i].user = ret.user}
            /\ (ret.user = AnonymousUser /\ ret.key \in SessionKeys) =>
                   ret.val = {i \in mine : submissions[i].session_key = ret.key}
            /\ (ret.user = AnonymousUser /\ ret.key \in {NoneKey, ""}) =>
                   ret.val = {}
            /\ ret.val \subseteq mine

\* alice asked with key k1: her Submission came back, and a Submission of
\* the same survey with key k1 but not hers did not.
C7_Witness ==
    /\ ret.op = "submissions_for"
    /\ ret.user = "alice"
    /\ ret.key = "k1"
    /\ ret.val # {}
    /\ \E j \in DOMAIN submissions :
          /\ j \notin ret.val
          /\ submissions[j].survey = ret.survey
          /\ submissions[j].session_key = "k1"

(***************************************************************************)
(* C8: every call of get_answer_dict() on one Submission instance returns   *)
(* the same mapping object, and the instance reads its answers from         *)
(* storage at most once.                                                    *)
(***************************************************************************)
C8_Memoized ==
    /\ \A i, j \in DOMAIN returned : returned[i] = returned[j]
    /\ queries <= 1
    /\ returned # <<>> => queries = 1 /\ Len(heap) = 1

\* get_answer_dict ran at least twice on the instance.
C8_Witness ==
    /\ Len(returned) >= 2
    /\ queries = 1

(***************************************************************************)
(* C10: once the answers of a Submission change, the memoized mapping of    *)
(* the instance is invalidated or recomputed: a mapping the instance holds  *)
(* is the mapping of the current answers.                                   *)
(***************************************************************************)
C10_MemoFollowsAnswers ==
    answer_dict # 0 => heap[answer_dict] = DictOf(answer_set)

(***************************************************************************)
(* C3: a POST for a live survey that is not open is answered with a         *)
(* redirect to the survey's results page, not with an error.                *)
(***************************************************************************)
C3_ClosedSurveyRedirects ==
    \A r \in Reqs :
        ( /\ pc[r] = "done"
          /\ req[r].view = "survey_detail"
          /\ req[r].method = "POST"
          /\ req[r].slug \in get_query_set(surveys, req[r].at)
          /\ ~is_open(surveys[req[r].slug], req[r].at) )
        => resp[r].body = "redirect survey_results"

(***************************************************************************)
(* C1: with allow_multiple_submissions false, a requester with a prior      *)
(* Submission for the survey is refused, a requester with none is allowed   *)
(* one, and the survey never holds two Submissions of one user or of one    *)
(* session key.                                                             *)
(***************************************************************************)
C1_OneSubmissionPerRequester ==
    /\ OnePerRequester(submissions)
    /\ \A r \in Reqs :
          ( /\ pc[r] = "done"
            /\ req[r].view = "survey_detail"
            /\ req[r].method = "POST"
            /\ req[r].slug \in get_query_set(surveys, req[r].at)
            /\ is_open(surveys[req[r].slug], req[r].at)
            /\ ~surveys[req[r].slug].allow_multiple_submissions
            /\ ~surveys[req[r].slug].require_login \/ is_authenticated(req[r].user)
            /\ req[r].session # NoSession )
          => IF AttributedTo(req[r].slug, submissions, req[r].user, req[r].session) # {}
             THEN resp[r].body = "already_submitted"
             ELSE resp[r].body \in {"redirect survey_results thanks",
                                    "survey_detail with form errors"}

\* Under SpecIsOpenProperty: the survey holds no two Submissions of one user
\* while it forbids multiple submissions.  Two requests of one user that both
\* run line 22 before either runs line 31 break it.
NoDoubleSubmission ==
    \A i, j \in DOMAIN submissions :
        ( /\ i # j
          /\ submissions[i].survey = submissions[j].survey
          /\ ~surveys[submissions[i].survey].allow_multiple_submissions
          /\ submissions[i].user # NullUser )
        => submissions[i].user # submissions[j].user

====
